---- MODULE Spec2Model ----
(***************************************************************************)
(* A model of the Wikia API client of src/src/Wikia.js.                    *)
(*                                                                         *)
(* The client holds wiki, baseURL and a request factory.  Every method     *)
(* builds one request object, adds query keys to it conditionally, and     *)
(* hands it to the transport by calling then().  The transport later       *)
(* settles the promise.  JavaScript runs each method body to completion,   *)
(* so a method call is one action; two callers model invocations whose     *)
(* requests are outstanding at the same time.                              *)
(***************************************************************************)
EXTENDS Integers, Sequences, FiniteSets, TLC

(***************************************************************************)
(* JavaScript values.  Every value is a record of the same shape so that   *)
(* values of different JavaScript types can be compared.                   *)
(***************************************************************************)
Undef == [t |-> "undefined", s |-> "", n |-> 0, a |-> <<>>]

Str(x) == [t |-> "string", s |-> x, n |-> 0, a |-> <<>>]

Num(x) == [t |-> "number", s |-> "", n |-> x, a |-> <<>>]

Bool(x) == [t |-> "boolean", s |-> "", n |-> IF x THEN 1 ELSE 0, a |-> <<>>]

Arr(x) == [t |-> "array", s |-> "", n |-> 0, a |-> x]

\* JavaScript truthiness: what if(v) tests.
Truthy(v) ==
    CASE v.t = "undefined" -> FALSE
      [] v.t = "boolean" -> v.n = 1
      [] v.t = "number" -> v.n # 0
      [] v.t = "string" -> v.s # ""
      [] v.t = "array" -> TRUE

\* typeof v !== "undefined"
Defined(v) == v.t # "undefined"

\* Array.isArray(v)
IsArray(v) == v.t = "array"

\* join(""): the elements run together with no separator.
RECURSIVE JoinNoSep(_)
JoinNoSep(a) ==
    IF a = <<>> THEN "" ELSE a[1] \o JoinNoSep(Tail(a))

\* Array.prototype.join(",") on an array of strings.
RECURSIVE JoinSeq(_)
JoinSeq(a) ==
    IF a = <<>> THEN ""
    ELSE IF Len(a) = 1 THEN a[1]
    ELSE a[1] \o "," \o JoinSeq(Tail(a))

\* if(Array.isArray(x)) x = x.join(",");
Joined(v) == IF IsArray(v) THEN Str(JoinSeq(v.a)) ELSE v

\* A destructuring default: name = dflt applies when the property is undefined.
Default(v, dflt) == IF Defined(v) THEN v ELSE dflt

\* Boolean(v)
ToBoolean(v) == Bool(Truthy(v))

\* Number(v) for the booleans and numbers the expand option takes.
ToNumber(v) == IF v.t = "boolean" THEN Num(v.n) ELSE v

(***************************************************************************)
(* Bounds of the model.                                                    *)
(***************************************************************************)
\* The most options one invocation supplies in its options record.
MaxOpts == 2

\* The same, for the invocations of the concurrent specification.
MaxConcurrentOpts == 0

\* The callers whose invocations may be outstanding at the same time.
Callers == {"c1", "c2"}

(***************************************************************************)
(* The arguments callers pass, by documented type (the JSDoc of each       *)
(* method): a falsy and a truthy value of each type, and for the           *)
(* "String|Array<String>" parameters a string and an array, empty and not. *)
(***************************************************************************)
BoolVals == {Bool(FALSE), Bool(TRUE)}

NumVals == {Num(0), Num(5)}

StrVals == {Str(""), Str("x")}

ListVals == {Str(""), Str("a,b"), Arr(<<>>), Arr(<<"a", "b">>)}

OptVals(type) ==
    CASE type = "bool" -> BoolVals
      [] type = "num" -> NumVals
      [] type = "str" -> StrVals
      [] type = "list" -> ListVals

\* The assignments of a value of its documented type to each option of S.
RECURSIVE Assignments(_, _)
Assignments(S, types) ==
    IF S = {} THEN {[n \in {} |-> Undef]}
    ELSE LET n == CHOOSE x \in S : TRUE
         IN  {(n :> v) @@ g : v \in OptVals(types[n]), g \in Assignments(S \ {n}, types)}

\* The options records over the option names of `types` (name -> documented
\* type) that supply at most k options; an option not supplied reads as
\* undefined.
OptionRecords(types, k) ==
    LET names == DOMAIN types
        small == {S \in SUBSET names : Cardinality(S) <= k}
    IN  UNION {{[n \in names |-> IF n \in S THEN g[n] ELSE Undef] : g \in Assignments(S, types)}
               : S \in small}

\* The options of a method that takes none.
NoOpts == [n \in {} |-> Undef]

\* The arguments of one invocation: the positional argument, whether an
\* options record was passed at all, and the options record.
Args(posVals, types, k) ==
    {[pos |-> p, hasOpts |-> TRUE, o |-> o] : p \in posVals, o \in OptionRecords(types, k)}
    \cup {[pos |-> p, hasOpts |-> FALSE, o |-> [n \in DOMAIN types |-> Undef]]
          : p \in posVals}

NoArgs == [pos |-> Undef, hasOpts |-> FALSE, o |-> NoOpts]

\* The options an invocation supplies.
Supplied(a) == {n \in DOMAIN a.o : a.hasOpts /\ Defined(a.o[n])}

NoCall == [op |-> "none", args |-> NoArgs]

(***************************************************************************)
(* The state.                                                              *)
(***************************************************************************)
VARIABLES
    wiki,       \* this.wiki
    baseURL,    \* this.baseURL
    headers,    \* the default headers of this.request
    pc,         \* per caller: "idle", "pending" (request outstanding), "done"
    call,       \* per caller: the method and arguments of its invocation
    ret,        \* per caller: how the method call ended, a promise or a throw
    req,        \* per caller: the request object the method created
    sent,       \* per caller: how many times the invocation's request was issued
    promise     \* per caller: the promise the method returned

vars == <<wiki, baseURL, headers, pc, call, ret, req, sent, promise>>

client == <<wiki, baseURL, headers>>

(***************************************************************************)
(* Construction.                                                           *)
(***************************************************************************)
\* The wiki option of the constructor: absent, empty, or a wiki name.
WikiInputs == {Undef, Str(""), Str("foo")}

\* The template of baseURL with the test on wiki left out: the segment is
\* interpolated whatever wiki is.
BaseURLUnguarded(w) ==
    "http://www." \o (IF w.t = "undefined" THEN "undefined" ELSE w.s) \o "."
        \o "wikia.com/api/v1"

\* this.baseURL = `http://www.${wiki ? `${wiki}.` : ""}wikia.com/api/v1`
BaseURLOf(w) ==
    "http://www." \o (IF Truthy(w) THEN w.s \o "." ELSE "") \o "wikia.com/api/v1"

\* ladybug.create({ baseURL }).set(...).accept("json").set(...).set(...)
DefaultHeaders ==
    ("User-Agent" :> "Wikia JavaScript (https://github.com/pollen5/wikia)")
    @@ ("Accept" :> "application/json")
    @@ ("Accept-Encoding" :> "gzip")
    @@ ("Content-Type" :> "application/json")

\* What callers pass to the constructor: nothing, or an options record
\* whose wiki is one of WikiInputs.
ConstructorInputs ==
    {[hasOpts |-> FALSE, wiki |-> Undef]}
    \cup {[hasOpts |-> TRUE, wiki |-> w] : w \in WikiInputs}

\* constructor({ wiki } = {}): the body has no throw and no call that
\* depends on wiki other than the template; it ends with the three fields
\* of the instance set.
constructor(o) ==
    LET w == IF o.hasOpts THEN o.wiki ELSE Undef
    IN  [threw |-> FALSE, wiki |-> w, baseURL |-> BaseURLOf(w),
         headers |-> DefaultHeaders]

(***************************************************************************)
(* Requests.                                                               *)
(***************************************************************************)
EmptyQuery == [k \in {} |-> Undef]

NoReq == [method |-> "none", baseURL |-> "", path |-> "", headers |-> EmptyQuery,
          query |-> EmptyQuery]

\* A request factory that hands every invocation one shared query object:
\* the keys of the requests still outstanding leak into the new one.
RECURSIVE MergedQueries(_)
MergedQueries(S) ==
    IF S = {} THEN EmptyQuery
    ELSE LET c == CHOOSE x \in S : TRUE
         IN  req[c].query @@ MergedQueries(S \ {c})

SharedRequest(path) ==
    [method |-> "GET", baseURL |-> baseURL, path |-> path, headers |-> headers,
     query |-> MergedQueries({c \in Callers : pc[c] = "pending"})]

\* this.request(path): a new GET request of the client's instance, with the
\* instance's baseURL and headers and a query of its own.
Request(path) ==
    [method |-> "GET", baseURL |-> baseURL, path |-> path, headers |-> headers,
     query |-> EmptyQuery]

\* req.query({ k: v }): the key is added to the request's query.
Query(r, k, v) == [r EXCEPT !.query = (k :> v) @@ @]

\* req.query({ k: v }) with the if() around it left out.
WhenAlways(cond, r, k, v) == Query(r, k, v)

\* The guard if(typeof v !== "undefined") where the code has its own guard.
WhenDefined(cond, r, k, v) == IF Defined(v) THEN Query(r, k, v) ELSE r

\* if(cond) req.query({ k: v });
When(cond, r, k, v) == IF cond THEN Query(r, k, v) ELSE r

\* How a method call ends: return req.then(...) issues the request once and
\* returns its promise; a throw leaves the request (if one was made) unissued.
Returned(r) == [kind |-> "promise", error |-> "", message |-> "", req |-> r, sent |-> 1]

Thrown(e, r) ==
    [kind |-> "throw", error |-> e.name, message |-> e.message, req |-> r, sent |-> 0]

\* The destructured options parameter `{ ... } = {}`: an absent options
\* record reads as one with every option undefined.
Options(a) == IF a.hasOpts THEN a.o ELSE [n \in DOMAIN a.o |-> Undef]

\* A run of req.query(...) statements in source order, each <<guard, key,
\* value>>: the key is added when the guard holds.
RECURSIVE Build(_, _)
Build(r, steps) ==
    IF steps = <<>> THEN r
    ELSE Build(When(steps[1][1], r, steps[1][2], steps[1][3]), Tail(steps))

(***************************************************************************)
(* The methods.  Each operator is the method body as a function of the     *)
(* arguments of one invocation: the request it builds and how it ends.     *)
(***************************************************************************)
\* new Error(msg)
Error(msg) == [name |-> "Error", message |-> msg]

\* The TypeError the runtime raises for a call of a property that is no function.
QueyTypeError == [name |-> "TypeError", message |-> "req.quey is not a function"]

\* The TypeError the runtime raises for destructuring undefined.
DestructureTypeError ==
    [name |-> "TypeError", message |-> "Cannot destructure property 'limit' of undefined"]

\* expand = Boolean(this.wiki), with the default never taken from the wiki.
ExpandNeverDefault == Bool(FALSE)

\* The default of searchCrossWiki's expand option: Boolean(this.wiki).
ExpandDefault == ToBoolean(wiki)

searchWikis(a) ==
    LET o == Options(a)
        includeDomain == Default(o.includeDomain, Bool(TRUE))
        lang == Joined(o.lang)
    IN  Returned(Build(Request("/Wikis/ByString"), <<
            <<TRUE, "string", a.pos>>,
            <<TRUE, "includeDomain", includeDomain>>,
            <<Truthy(o.hub), "hub", o.hub>>,
            <<Truthy(lang), "lang", lang>>,
            <<Truthy(o.limit), "limit", o.limit>>,
            <<Truthy(o.expand), "expand", Num(1)>>,
            <<Truthy(o.batch), "batch", o.batch>> >>))

getDetails(a) ==
    LET o == Options(a)
        ids == Joined(a.pos)
    IN  Returned(Build(Request("/Wikis/Details"), <<
            <<TRUE, "ids", ids>>,
            <<Truthy(o.width), "width", o.width>>,
            <<Truthy(o.height), "height", o.height>>,
            <<Truthy(o.snippet), "snippet", o.snippet>> >>))

\* if(hub) req.quey({ hub }) calls a method the request does not have: the
\* call throws after the request was created and limit was added.
getTopWikis(a) ==
    LET o == Options(a)
        lang == Joined(o.lang)
        r1 == Build(Request("/Wikis/List"), <<
                  <<Truthy(o.limit), "limit", o.limit>> >>)
    IN  IF Truthy(o.hub) THEN Thrown(QueyTypeError, r1)
        ELSE Returned(Build(r1, <<
                 <<Truthy(lang), "lang", lang>>,
                 <<Truthy(o.batch), "batch", o.batch>>,
                 <<Truthy(o.expand), "expand", ToNumber(o.expand)>> >>))

searchSuggestions(a) ==
    IF ~Truthy(wiki)
    THEN Thrown(Error(
             "Search suggestions can only be used for a wiki not cross-wiki."), NoReq)
    ELSE Returned(Build(Request("/SearchSuggestions/List"), <<
             <<TRUE, "query", a.pos>> >>))

getMinMaxWamIndexDate(a) == Returned(Request("/WAM/MinMaxWamIndexDate"))

getWamLanguages(a) ==
    Returned(Build(Request("/WAM/WAMLanguages"), <<
        <<Truthy(a.pos), "wam_day", a.pos>> >>))

\* getWamIndex with the wire key of verticalID respelled vertical_id.
getWamIndexRespelled(a) ==
    LET o == Options(a)
    IN  Returned(Build(Request("/WAM/WAMIndex"), <<
            <<Truthy(o.wamDay), "wam_day", o.wamDay>>,
            <<Truthy(o.wamPreviousDay), "wam_previous_day", o.wamPreviousDay>>,
            <<Truthy(o.verticalID), "vertical_id", o.verticalID>>,
            <<Truthy(o.wikiLang), "wiki_lang", o.wikiLang>>,
            <<Truthy(o.wikiID), "wiki_id", o.wikiID>>,
            <<Truthy(o.wikiWord), "wiki_word", o.wikiWord>>,
            <<Truthy(o.excludeBlacklist), "exclude_blacklist", o.excludeBlacklist>>,
            <<Truthy(o.sortColumn), "sort_column", o.sortColumn>>,
            <<Truthy(o.sortDirection), "sort_direction", o.sortDirection>>,
            <<Truthy(o.offset), "offset", o.offset>>,
            <<Truthy(o.limit), "limit", o.limit>>,
            <<Defined(o.fetchAdmins), "fetch_admins", o.fetchAdmins>>,
            <<Truthy(o.avatarSize), "avatar_size", o.avatarSize>>,
            <<Defined(o.fetchWikiImages), "fetch_wiki_images", o.fetchWikiImages>>,
            <<Truthy(o.wikiImageWidth), "wiki_image_width", o.wikiImageWidth>>,
            <<Truthy(o.wikiImageHeight), "wiki_image_height", o.wikiImageHeight>> >>))

getWamIndex(a) ==
    LET o == Options(a)
    IN  Returned(Build(Request("/WAM/WAMIndex"), <<
            <<Truthy(o.wamDay), "wam_day", o.wamDay>>,
            <<Truthy(o.wamPreviousDay), "wam_previous_day", o.wamPreviousDay>>,
            <<Truthy(o.verticalID), "veritical_id", o.verticalID>>,
            <<Truthy(o.wikiLang), "wiki_lang", o.wikiLang>>,
            <<Truthy(o.wikiID), "wiki_id", o.wikiID>>,
            <<Truthy(o.wikiWord), "wiki_word", o.wikiWord>>,
            <<Truthy(o.excludeBlacklist), "exclude_blacklist", o.excludeBlacklist>>,
            <<Truthy(o.sortColumn), "sort_column", o.sortColumn>>,
            <<Truthy(o.sortDirection), "sort_direction", o.sortDirection>>,
            <<Truthy(o.offset), "offset", o.offset>>,
            <<Truthy(o.limit), "limit", o.limit>>,
            <<Defined(o.fetchAdmins), "fetch_admins", o.fetchAdmins>>,
            <<Truthy(o.avatarSize), "avatar_size", o.avatarSize>>,
            <<Defined(o.fetchWikiImages), "fetch_wiki_images", o.fetchWikiImages>>,
            <<Truthy(o.wikiImageWidth), "wiki_image_width", o.wikiImageWidth>>,
            <<Truthy(o.wikiImageHeight), "wiki_image_height", o.wikiImageHeight>> >>))

\* ids is joined and then never added to the query.
getUsers(a) ==
    LET o == Options(a)
        ids == Joined(a.pos)
    IN  Returned(Build(Request("/User/Details"), <<
            <<Defined(o.size), "size", o.size>> >>))

\* The options parameter `{ limit }` has no default: destructuring an
\* absent options record throws before the body runs.
getRelatedArticles(a) ==
    IF ~a.hasOpts THEN Thrown(DestructureTypeError, NoReq)
    ELSE LET o == a.o
             ids == Joined(a.pos)
         IN  Returned(Build(Request("/RelatedPages/List"), <<
                 <<TRUE, "ids", ids>>,
                 <<Truthy(o.limit), "limit", o.limit>> >>))

getNavigation(a) == Returned(Request("/Navigation/Data"))

getWikiData(a) == Returned(Request("/Mercury/WikiVariables"))

getLatestActivity(a) ==
    LET o == Options(a)
        namespaces == Joined(o.namespaces)
    IN  Returned(Build(Request("/Activity/LatestActivity"), <<
            <<Truthy(o.limit), "limit", o.limit>>,
            <<Truthy(namespaces), "namespaces", namespaces>>,
            <<Defined(o.allowDuplicates), "allowDuplicates", o.allowDuplicates>> >>))

getRecentlyChangedArticles(a) ==
    LET o == Options(a)
        namespaces == Joined(o.namespaces)
    IN  Returned(Build(Request("/Activity/RecentlyChangedArticles"), <<
            <<Truthy(o.limit), "limit", o.limit>>,
            <<Truthy(namespaces), "namespaces", namespaces>>,
            <<Defined(o.allowDuplicates), "allowDuplicates", o.allowDuplicates>> >>))

searchCombined(a) ==
    LET o == Options(a)
        langs == Joined(o.langs)
        hubs == Joined(o.hubs)
        namespaces == Joined(o.namespaces)
    IN  Returned(Build(Request("/Search/Combined"), <<
            <<TRUE, "query", a.pos>>,
            <<Truthy(langs), "langs", langs>>,
            <<Truthy(hubs), "hubs", hubs>>,
            <<Truthy(namespaces), "namespaces", namespaces>>,
            <<Truthy(o.limit), "limit", o.limit>>,
            <<Defined(o.minArticleQuality), "minArticleQuality", o.minArticleQuality>> >>))

\* expand = Boolean(this.wiki) is evaluated at the call, when expand is undefined.
searchCrossWiki(a) ==
    LET o == Options(a)
        expand == Default(o.expand, ExpandDefault)
        hub == Joined(o.hub)
        lang == Joined(o.lang)
    IN  Returned(Build(Request("/Search/CrossWiki"), <<
            <<TRUE, "query", a.pos>>,
            <<Truthy(hub), "hub", hub>>,
            <<Truthy(lang), "lang", lang>>,
            <<Truthy(o.rank), "rank", o.rank>>,
            <<Truthy(o.limit), "limit", o.limit>>,
            <<Truthy(o.batch), "batch", o.batch>>,
            <<Truthy(expand), "expand", expand>>,
            <<Truthy(expand) /\ Truthy(o.width), "width", o.width>>,
            <<Truthy(expand) /\ Truthy(o.height), "height", o.height>>,
            <<Truthy(expand) /\ Truthy(o.snippet), "snippet", o.snippet>> >>))

\* search() with its wiki check left out.
searchUnchecked(a) ==
    LET o == Options(a)
    IN  Returned(Build(Request("/Search/List"), <<
            <<TRUE, "query", a.pos>>,
            <<Truthy(o.type), "type", o.type>>,
            <<Truthy(o.rank), "rank", o.rank>>,
            <<Truthy(o.limit), "limit", o.limit>>,
            <<Defined(o.minArticleQuality), "minArticleQuality", o.minArticleQuality>>,
            <<Truthy(o.batch), "batch", o.batch>>,
            <<Truthy(o.namespaces), "namespaces", o.namespaces>> >>))

search(a) ==
    LET o == Options(a)
    IN  IF ~Truthy(wiki)
        THEN Thrown(Error(
                 "search() is only available if a wiki is provided."), NoReq)
        ELSE Returned(Build(Request("/Search/List"), <<
                 <<TRUE, "query", a.pos>>,
                 <<Truthy(o.type), "type", o.type>>,
                 <<Truthy(o.rank), "rank", o.rank>>,
                 <<Truthy(o.limit), "limit", o.limit>>,
                 <<Defined(o.minArticleQuality), "minArticleQuality", o.minArticleQuality>>,
                 <<Truthy(o.batch), "batch", o.batch>>,
                 <<Truthy(o.namespaces), "namespaces", o.namespaces>> >>))

getSimplifiedArticle(a) ==
    Returned(Build(Request("/Articles/AsSimpleJson"), <<
        <<TRUE, "id", a.pos>> >>))

getArticleDetails(a) ==
    LET o == Options(a)
        ids == Joined(a.pos)
        titles == Joined(o.titles)
    IN  Returned(Build(Request("/Articles/Details"), <<
            <<TRUE, "ids", ids>>,
            <<Truthy(titles), "titles", titles>>,
            <<Truthy(o.abstract), "abstract", o.abstract>>,
            <<Truthy(o.width), "width", o.width>>,
            <<Truthy(o.height), "height", o.height>> >>))

getArticlesList(a) ==
    LET o == Options(a)
        namespaces == Joined(o.namespaces)
        expand == Default(o.expand, Bool(FALSE))
    IN  Returned(Build(Request("/Articles/List"), <<
            <<Truthy(o.category), "category", o.category>>,
            <<Truthy(namespaces), "namespaces", namespaces>>,
            <<Truthy(o.limit), "limit", o.limit>>,
            <<Truthy(o.offset), "offset", o.offset>>,
            <<Truthy(expand), "expand", Num(1)>> >>))

getMostLinkedArtices(a) ==
    LET o == Options(a)
        expand == Default(o.expand, Bool(FALSE))
    IN  Returned(Build(Request("/Articles/MostLinked"), <<
            <<Truthy(expand), "expand", Num(1)>> >>))

getNewArticles(a) ==
    LET o == Options(a)
        namespaces == Joined(o.namespaces)
    IN  IF ~Truthy(wiki)
        THEN Thrown(Error("A wiki must be set to use this method."), NoReq)
        ELSE Returned(Build(Request("/Articles/New"), <<
                 <<Truthy(namespaces), "namespaces", namespaces>>,
                 <<Truthy(o.limit), "limit", o.limit>>,
                 <<Defined(o.minArticleQuality), "minArticleQuality", o.minArticleQuality>> >>))

getPopularArticles(a) ==
    LET o == Options(a)
        expand == Default(o.expand, Bool(FALSE))
    IN  Returned(Build(Request("/Articles/Popular"), <<
            <<Truthy(o.limit), "limit", o.limit>>,
            <<Truthy(o.baseArticleId), "baseArticleId", o.baseArticleId>>,
            <<Truthy(expand), "expand", Num(1)>> >>))

getTopArticles(a) ==
    LET o == Options(a)
        namespaces == Joined(o.namespaces)
        expand == Default(o.expand, Bool(FALSE))
    IN  Returned(Build(Request("/Articles/Top"), <<
            <<Truthy(namespaces), "namespaces", namespaces>>,
            <<Truthy(o.limit), "limit", o.limit>>,
            <<Truthy(o.baseArticleId), "baseArticleId", o.baseArticleId>>,
            <<Truthy(expand), "expand", Num(1)>> >>))

\* hub is never added to the query.
getTopArticlesByHub(a) ==
    LET o == Options(a)
        namespaces == Joined(o.namespaces)
        lang == Joined(o.lang)
    IN  Returned(Build(Request("/Articles/TopByHub"), <<
            <<Truthy(lang), "lang", lang>>,
            <<Truthy(namespaces), "namespaces", namespaces>> >>))

\* The method named op, called with the arguments a.
Run(op, a) ==
    CASE op = "searchWikis" -> searchWikis(a)
      [] op = "getDetails" -> getDetails(a)
      [] op = "getTopWikis" -> getTopWikis(a)
      [] op = "searchSuggestions" -> searchSuggestions(a)
      [] op = "getMinMaxWamIndexDate" -> getMinMaxWamIndexDate(a)
      [] op = "getWamLanguages" -> getWamLanguages(a)
      [] op = "getWamIndex" -> getWamIndex(a)
      [] op = "getUsers" -> getUsers(a)
      [] op = "getRelatedArticles" -> getRelatedArticles(a)
      [] op = "getNavigation" -> getNavigation(a)
      [] op = "getWikiData" -> getWikiData(a)
      [] op = "getLatestActivity" -> getLatestActivity(a)
      [] op = "getRecentlyChangedArticles" -> getRecentlyChangedArticles(a)
      [] op = "searchCombined" -> searchCombined(a)
      [] op = "searchCrossWiki" -> searchCrossWiki(a)
      [] op = "search" -> search(a)
      [] op = "getSimplifiedArticle" -> getSimplifiedArticle(a)
      [] op = "getArticleDetails" -> getArticleDetails(a)
      [] op = "getArticlesList" -> getArticlesList(a)
      [] op = "getMostLinkedArtices" -> getMostLinkedArtices(a)
      [] op = "getNewArticles" -> getNewArticles(a)
      [] op = "getPopularArticles" -> getPopularArticles(a)
      [] op = "getTopArticles" -> getTopArticles(a)
      [] op = "getTopArticlesByHub" -> getTopArticlesByHub(a)

\* The path each method requests.
PathOf ==
    [searchWikis |-> "/Wikis/ByString",
     getDetails |-> "/Wikis/Details",
     getTopWikis |-> "/Wikis/List",
     searchSuggestions |-> "/SearchSuggestions/List",
     getMinMaxWamIndexDate |-> "/WAM/MinMaxWamIndexDate",
     getWamLanguages |-> "/WAM/WAMLanguages",
     getWamIndex |-> "/WAM/WAMIndex",
     getUsers |-> "/User/Details",
     getRelatedArticles |-> "/RelatedPages/List",
     getNavigation |-> "/Navigation/Data",
     getWikiData |-> "/Mercury/WikiVariables",
     getLatestActivity |-> "/Activity/LatestActivity",
     getRecentlyChangedArticles |-> "/Activity/RecentlyChangedArticles",
     searchCombined |-> "/Search/Combined",
     searchCrossWiki |-> "/Search/CrossWiki",
     search |-> "/Search/List",
     getSimplifiedArticle |-> "/Articles/AsSimpleJson",
     getArticleDetails |-> "/Articles/Details",
     getArticlesList |-> "/Articles/List",
     getMostLinkedArtices |-> "/Articles/MostLinked",
     getNewArticles |-> "/Articles/New",
     getPopularArticles |-> "/Articles/Popular",
     getTopArticles |-> "/Articles/Top",
     getTopArticlesByHub |-> "/Articles/TopByHub"]

(***************************************************************************)
(* The arguments of each method: its positional argument and the           *)
(* documented type of each option of its options record.                   *)
(***************************************************************************)
\* A search term, query or hub name.
TermVals == {Str("x")}

\* ids: a comma-separated string or an array of strings.
IdsVals == {Str("a,b"), Arr(<<"a", "b">>)}

\* An article id.
IdVals == {Num(5)}

\* The optional positional wamDay of getWamLanguages.
WamDayVals == {Undef, Num(0), Num(5)}

\* The arguments of a method with no options parameter.
Positional(posVals) == {[pos |-> p, hasOpts |-> FALSE, o |-> NoOpts] : p \in posVals}

Types_searchWikis ==
    [expand |-> "bool", hub |-> "str", lang |-> "list", includeDomain |-> "bool", limit
     |-> "num", batch |-> "num"]

Types_getDetails ==
    [width |-> "num", height |-> "num", snippet |-> "num"]

Types_getTopWikis ==
    [expand |-> "bool", limit |-> "num", hub |-> "str", lang |-> "list", batch |->
     "num"]

Types_getWamIndex ==
    [wamDay |-> "num", wamPreviousDay |-> "num", verticalID |-> "num", wikiLang |->
     "str", wikiID |-> "num", wikiWord |-> "str", excludeBlacklist |-> "bool",
     sortColumn |-> "str", sortDirection |-> "str", offset |-> "num", limit |->
     "num", fetchAdmins |-> "bool", avatarSize |-> "num", fetchWikiImages |->
     "bool", wikiImageWidth |-> "num", wikiImageHeight |-> "num"]

Types_getUsers ==
    [size |-> "num"]

Types_getRelatedArticles ==
    [limit |-> "num"]

Types_getLatestActivity ==
    [limit |-> "num", namespaces |-> "list", allowDuplicates |-> "bool"]

Types_getRecentlyChangedArticles ==
    [limit |-> "num", namespaces |-> "list", allowDuplicates |-> "bool"]

Types_searchCombined ==
    [langs |-> "list", hubs |-> "list", namespaces |-> "list", limit |-> "num",
     minArticleQuality |-> "num"]

Types_searchCrossWiki ==
    [expand |-> "bool", hub |-> "list", lang |-> "list", rank |-> "str", limit |->
     "num", batch |-> "num", height |-> "num", width |-> "num", snippet |-> "num"]

Types_search ==
    [type |-> "str", rank |-> "str", limit |-> "num", minArticleQuality |-> "num", batch
     |-> "num", namespaces |-> "str"]

Types_getArticleDetails ==
    [titles |-> "list", abstract |-> "num", width |-> "num", height |-> "num"]

Types_getArticlesList ==
    [category |-> "str", namespaces |-> "list", limit |-> "num", offset |-> "str",
     expand |-> "bool"]

Types_getMostLinkedArtices ==
    [expand |-> "bool"]

Types_getNewArticles ==
    [namespaces |-> "list", limit |-> "num", minArticleQuality |-> "num"]

Types_getPopularArticles ==
    [limit |-> "num", baseArticleId |-> "num", expand |-> "bool"]

Types_getTopArticles ==
    [namespaces |-> "list", limit |-> "num", baseArticleId |-> "num", expand |-> "bool"]

Types_getTopArticlesByHub ==
    [lang |-> "list", namespaces |-> "list"]

\* The arguments each method is invoked with, when an invocation supplies
\* at most k options.
ArgsOf(k) ==
    [searchWikis |-> Args(TermVals, Types_searchWikis, k),
     getDetails |-> Args(IdsVals, Types_getDetails, k),
     getTopWikis |-> Args({Undef}, Types_getTopWikis, k),
     searchSuggestions |-> Positional(TermVals),
     getMinMaxWamIndexDate |-> Positional({Undef}),
     getWamLanguages |-> Positional(WamDayVals),
     getWamIndex |-> Args({Undef}, Types_getWamIndex, k),
     getUsers |-> Args(IdsVals, Types_getUsers, k),
     getRelatedArticles |-> Args(IdsVals, Types_getRelatedArticles, k),
     getNavigation |-> Positional({Undef}),
     getWikiData |-> Positional({Undef}),
     getLatestActivity |-> Args({Undef}, Types_getLatestActivity, k),
     getRecentlyChangedArticles |-> Args({Undef}, Types_getRecentlyChangedArticles, k),
     searchCombined |-> Args(TermVals, Types_searchCombined, k),
     searchCrossWiki |-> Args(TermVals, Types_searchCrossWiki, k),
     search |-> Args(TermVals, Types_search, k),
     getSimplifiedArticle |-> Positional(IdVals),
     getArticleDetails |-> Args(IdsVals, Types_getArticleDetails, k),
     getArticlesList |-> Args({Undef}, Types_getArticlesList, k),
     getMostLinkedArtices |-> Args({Undef}, Types_getMostLinkedArtices, k),
     getNewArticles |-> Args({Undef}, Types_getNewArticles, k),
     getPopularArticles |-> Args({Undef}, Types_getPopularArticles, k),
     getTopArticles |-> Args({Undef}, Types_getTopArticles, k),
     getTopArticlesByHub |-> Args(TermVals, Types_getTopArticlesByHub, k)]

SequentialArgs == ArgsOf(MaxOpts)

ConcurrentArgs == ArgsOf(MaxConcurrentOpts)

(***************************************************************************)
(* Responses.  The transport decodes a JSON body; each method's then()     *)
(* callback reshapes it.  A body is a record of the fields the callbacks   *)
(* read; `has` names the fields the body really carries.                   *)
(***************************************************************************)
Item(title) == [title |-> title]

Body(has, items, minDate, maxDate) ==
    [has |-> has, items |-> items, min_date |-> minDate, max_date |-> maxDate]

NoBody == Body({}, <<>>, 0, 0)

ItemLists == {<<>>, <<Item("A")>>, <<Item("A"), Item("B")>>, <<Item("B"), Item("A")>>}

BodiesOf(op) ==
    CASE op = "searchSuggestions" ->
             {NoBody} \cup {Body({"items"}, l, 0, 0) : l \in ItemLists}
      [] op = "getMinMaxWamIndexDate" ->
             {NoBody, Body({"min_max_dates"}, <<>>, 1000, 2000),
              Body({"min_max_dates"}, <<>>, 3, 1)}
      [] OTHER -> {NoBody, Body({"items"}, <<Item("A")>>, 0, 0)}

\* new Date(ms) for an integer ms: the instant ms milliseconds after the
\* epoch.  Every ms of the model (a response's seconds times 1000) lies
\* well inside the range of time values, where the Date is never invalid.
NewDate(ms) == [valid |-> TRUE, time |-> ms]

\* The date fields of a value that carries no dates.
NoDate == [valid |-> FALSE, time |-> 0]

\* What a promise resolves to.
Value(t, body, list, minDate, maxDate) ==
    [t |-> t, body |-> body, list |-> list, minDate |-> minDate, maxDate |-> maxDate]

NoValue == Value("none", NoBody, <<>>, NoDate, NoDate)

UndefinedValue == Value("undefined", NoBody, <<>>, NoDate, NoDate)

\* res.body.<field>: a field the body lacks reads as undefined.
Field(b, f) ==
    IF f \in b.has
    THEN Value(f, NoBody, IF f = "items" THEN b.items ELSE <<>>, NoDate, NoDate)
    ELSE UndefinedValue

\* The callback of getMinMaxWamIndexDate with its two dates exchanged.
MinMaxDatesSwapped(b) ==
    [t |-> "dates", body |-> NoBody, list |-> <<>>,
     minDate |-> NewDate(b.max_date * 1000), maxDate |-> NewDate(b.min_date * 1000)]

\* const min = res.body.min_max_dates.min_date * 1000;
\* const max = res.body.min_max_dates.max_date * 1000;
\* return { maxDate: new Date(max), minDate: new Date(min) };
MinMaxDates(b) ==
    LET min == b.min_date * 1000
        max == b.max_date * 1000
    IN  [t |-> "dates", body |-> NoBody, list |-> <<>>,
         minDate |-> NewDate(min), maxDate |-> NewDate(max)]

\* The titles of the items taken from the last item to the first.
TitlesReversed(b) ==
    IF "items" \in b.has
    THEN [i \in 1..Len(b.items) |-> b.items[Len(b.items) + 1 - i].title]
    ELSE <<>>

\* (res.body.items || []).map((item) => item.title)
Titles(b) ==
    LET items == IF "items" \in b.has THEN b.items ELSE <<>>
    IN  [i \in 1..Len(items) |-> items[i].title]

\* The then() callback of each method, applied to the response body.  It
\* is a value, or the TypeError the callback throws.
CallbackTypeError == "TypeError: Cannot read property 'min_date' of undefined"

Reshape(op, b) ==
    CASE op \in {"getDetails", "getTopWikis", "getLatestActivity",
                 "getRecentlyChangedArticles", "getTopArticlesByHub"} ->
             [threw |-> FALSE, value |-> Field(b, "items")]
      [] op = "searchSuggestions" ->
             [threw |-> FALSE, value |-> Value("titles", NoBody, Titles(b), NoDate, NoDate)]
      [] op = "getMinMaxWamIndexDate" ->
             IF "min_max_dates" \in b.has
             THEN [threw |-> FALSE, value |-> MinMaxDates(b)]
             ELSE [threw |-> TRUE, value |-> NoValue]
      [] op = "getWamLanguages" ->
             [threw |-> FALSE,
              value |-> IF "languages" \in b.has THEN Field(b, "languages")
                        ELSE Value("languages", NoBody, <<>>, NoDate, NoDate)]
      [] op = "getNavigation" -> [threw |-> FALSE, value |-> Field(b, "navigation")]
      [] op = "getSimplifiedArticle" -> [threw |-> FALSE, value |-> Field(b, "sections")]
      [] OTHER -> [threw |-> FALSE, value |-> Value("body", b, <<>>, NoDate, NoDate)]

\* The failures of the transport: network error, non-2xx status, malformed JSON.
TransportErrors == {"network error", "status 404", "malformed JSON"}

NoReturn == [kind |-> "none", error |-> "", message |-> ""]

NoPromise ==
    [state |-> "none", op |-> "none", settles |-> 0, value |-> NoValue,
     reason |-> "", body |-> NoBody]

(***************************************************************************)
(* Actions.                                                                *)
(***************************************************************************)
Init ==
    /\ \E o \in ConstructorInputs :
          LET this == constructor(o)
          IN  /\ ~this.threw
              /\ wiki = this.wiki
              /\ baseURL = this.baseURL
              /\ headers = this.headers
    /\ pc = [c \in Callers |-> "idle"]
    /\ call = [c \in Callers |-> NoCall]
    /\ ret = [c \in Callers |-> NoReturn]
    /\ req = [c \in Callers |-> NoReq]
    /\ sent = [c \in Callers |-> 0]
    /\ promise = [c \in Callers |-> NoPromise]

\* Caller c invokes method op with arguments a, and the method body runs
\* to its return or throw: `out` is what the body did.
Invoke(c, op, a, out) ==
    /\ call' = [call EXCEPT ![c] = [op |-> op, args |-> a]]
    /\ ret' = [ret EXCEPT ![c] =
                  [kind |-> out.kind, error |-> out.error, message |-> out.message]]
    /\ req' = [req EXCEPT ![c] = out.req]
    /\ sent' = [sent EXCEPT ![c] = out.sent]
    /\ promise' = [promise EXCEPT ![c] =
                      IF out.kind = "promise"
                      THEN [NoPromise EXCEPT !.state = "pending", !.op = op]
                      ELSE NoPromise]
    /\ pc' = [pc EXCEPT ![c] = IF out.kind = "promise" THEN "pending" ELSE "done"]
    /\ UNCHANGED client

Call_searchWikis(c, A) ==
    /\ pc[c] = "idle"
    /\ \E a \in A.searchWikis : Invoke(c, "searchWikis", a, searchWikis(a))

Call_getDetails(c, A) ==
    /\ pc[c] = "idle"
    /\ \E a \in A.getDetails : Invoke(c, "getDetails", a, getDetails(a))

Call_getTopWikis(c, A) ==
    /\ pc[c] = "idle"
    /\ \E a \in A.getTopWikis : Invoke(c, "getTopWikis", a, getTopWikis(a))

Call_searchSuggestions(c, A) ==
    /\ pc[c] = "idle"
    /\ \E a \in A.searchSuggestions : Invoke(c, "searchSuggestions", a, searchSuggestions(a))

Call_getMinMaxWamIndexDate(c, A) ==
    /\ pc[c] = "idle"
    /\ \E a \in A.getMinMaxWamIndexDate : Invoke(c, "getMinMaxWamIndexDate", a, getMinMaxWamIndexDate(a))

Call_getWamLanguages(c, A) ==
    /\ pc[c] = "idle"
    /\ \E a \in A.getWamLanguages : Invoke(c, "getWamLanguages", a, getWamLanguages(a))

Call_getWamIndex(c, A) ==
    /\ pc[c] = "idle"
    /\ \E a \in A.getWamIndex : Invoke(c, "getWamIndex", a, getWamIndex(a))

Call_getUsers(c, A) ==
    /\ pc[c] = "idle"
    /\ \E a \in A.getUsers : Invoke(c, "getUsers", a, getUsers(a))

Call_getRelatedArticles(c, A) ==
    /\ pc[c] = "idle"
    /\ \E a \in A.getRelatedArticles : Invoke(c, "getRelatedArticles", a, getRelatedArticles(a))

Call_getNavigation(c, A) ==
    /\ pc[c] = "idle"
    /\ \E a \in A.getNavigation : Invoke(c, "getNavigation", a, getNavigation(a))

Call_getWikiData(c, A) ==
    /\ pc[c] = "idle"
    /\ \E a \in A.getWikiData : Invoke(c, "getWikiData", a, getWikiData(a))

Call_getLatestActivity(c, A) ==
    /\ pc[c] = "idle"
    /\ \E a \in A.getLatestActivity : Invoke(c, "getLatestActivity", a, getLatestActivity(a))

Call_getRecentlyChangedArticles(c, A) ==
    /\ pc[c] = "idle"
    /\ \E a \in A.getRecentlyChangedArticles : Invoke(c, "getRecentlyChangedArticles", a, getRecentlyChangedArticles(a))

Call_searchCombined(c, A) ==
    /\ pc[c] = "idle"
    /\ \E a \in A.searchCombined : Invoke(c, "searchCombined", a, searchCombined(a))

Call_searchCrossWiki(c, A) ==
    /\ pc[c] = "idle"
    /\ \E a \in A.searchCrossWiki : Invoke(c, "searchCrossWiki", a, searchCrossWiki(a))

Call_search(c, A) ==
    /\ pc[c] = "idle"
    /\ \E a \in A.search : Invoke(c, "search", a, search(a))

Call_getSimplifiedArticle(c, A) ==
    /\ pc[c] = "idle"
    /\ \E a \in A.getSimplifiedArticle : Invoke(c, "getSimplifiedArticle", a, getSimplifiedArticle(a))

Call_getArticleDetails(c, A) ==
    /\ pc[c] = "idle"
    /\ \E a \in A.getArticleDetails : Invoke(c, "getArticleDetails", a, getArticleDetails(a))

Call_getArticlesList(c, A) ==
    /\ pc[c] = "idle"
    /\ \E a \in A.getArticlesList : Invoke(c, "getArticlesList", a, getArticlesList(a))

Call_getMostLinkedArtices(c, A) ==
    /\ pc[c] = "idle"
    /\ \E a \in A.getMostLinkedArtices : Invoke(c, "getMostLinkedArtices", a, getMostLinkedArtices(a))

Call_getNewArticles(c, A) ==
    /\ pc[c] = "idle"
    /\ \E a \in A.getNewArticles : Invoke(c, "getNewArticles", a, getNewArticles(a))

Call_getPopularArticles(c, A) ==
    /\ pc[c] = "idle"
    /\ \E a \in A.getPopularArticles : Invoke(c, "getPopularArticles", a, getPopularArticles(a))

Call_getTopArticles(c, A) ==
    /\ pc[c] = "idle"
    /\ \E a \in A.getTopArticles : Invoke(c, "getTopArticles", a, getTopArticles(a))

Call_getTopArticlesByHub(c, A) ==
    /\ pc[c] = "idle"
    /\ \E a \in A.getTopArticlesByHub : Invoke(c, "getTopArticlesByHub", a, getTopArticlesByHub(a))

\* The transport answers c's request with a decoded body: the callback
\* runs, and the promise resolves to its value or rejects with what it
\* threw.  The invocation is over: its arguments and request are released.
Respond(c) ==
    /\ pc[c] = "pending"
    /\ \E b \in BodiesOf(call[c].op) :
          LET r == Reshape(call[c].op, b)
          IN  promise' = [promise EXCEPT ![c] =
                  [state |-> IF r.threw THEN "rejected" ELSE "fulfilled",
                   op |-> call[c].op,
                   settles |-> @.settles + 1,
                   value |-> r.value,
                   reason |-> IF r.threw THEN CallbackTypeError ELSE "",
                   body |-> b]]
    /\ pc' = [pc EXCEPT ![c] = "done"]
    /\ call' = [call EXCEPT ![c] = NoCall]
    /\ req' = [req EXCEPT ![c] = NoReq]
    /\ UNCHANGED <<client, ret, sent>>

\* The transport fails c's request: the promise rejects with the
\* transport's failure; nothing catches it and nothing is sent again.
Fail(c) ==
    /\ pc[c] = "pending"
    /\ \E e \in TransportErrors :
          promise' = [promise EXCEPT ![c] =
              [@ EXCEPT !.state = "rejected", !.settles = @ + 1, !.reason = e]]
    /\ pc' = [pc EXCEPT ![c] = "done"]
    /\ call' = [call EXCEPT ![c] = NoCall]
    /\ req' = [req EXCEPT ![c] = NoReq]
    /\ UNCHANGED <<client, ret, sent>>

\* The caller drops the result of its finished invocation (the settled
\* promise or the caught error) and is ready to invoke again.
Release(c) ==
    /\ pc[c] = "done"
    /\ pc' = [pc EXCEPT ![c] = "idle"]
    /\ call' = [call EXCEPT ![c] = NoCall]
    /\ ret' = [ret EXCEPT ![c] = NoReturn]
    /\ req' = [req EXCEPT ![c] = NoReq]
    /\ sent' = [sent EXCEPT ![c] = 0]
    /\ promise' = [promise EXCEPT ![c] = NoPromise]
    /\ UNCHANGED client

\* The steps of caller c, who invokes the methods with the arguments of A.
Step(c, A) ==
    \/ Call_searchWikis(c, A)
    \/ Call_getDetails(c, A)
    \/ Call_getTopWikis(c, A)
    \/ Call_searchSuggestions(c, A)
    \/ Call_getMinMaxWamIndexDate(c, A)
    \/ Call_getWamLanguages(c, A)
    \/ Call_getWamIndex(c, A)
    \/ Call_getUsers(c, A)
    \/ Call_getRelatedArticles(c, A)
    \/ Call_getNavigation(c, A)
    \/ Call_getWikiData(c, A)
    \/ Call_getLatestActivity(c, A)
    \/ Call_getRecentlyChangedArticles(c, A)
    \/ Call_searchCombined(c, A)
    \/ Call_searchCrossWiki(c, A)
    \/ Call_search(c, A)
    \/ Call_getSimplifiedArticle(c, A)
    \/ Call_getArticleDetails(c, A)
    \/ Call_getArticlesList(c, A)
    \/ Call_getMostLinkedArtices(c, A)
    \/ Call_getNewArticles(c, A)
    \/ Call_getPopularArticles(c, A)
    \/ Call_getTopArticles(c, A)
    \/ Call_getTopArticlesByHub(c, A)
    \/ Respond(c)
    \/ Fail(c)
    \/ Release(c)

\* One caller: the invocations on the client follow one another.
Next == Step("c1", SequentialArgs)

Spec == Init /\ [][Next]_vars

\* Two callers: a method may be invoked while the request of another
\* invocation is outstanding.
NextConcurrent == \E c \in Callers : Step(c, ConcurrentArgs)

SpecConcurrent == Init /\ [][NextConcurrent]_vars

(***************************************************************************)
(* Properties of the client.                                               *)
(***************************************************************************)
\* Caller c has an invocation whose arguments are on record: its request
\* is outstanding, or the method threw.
Invoked(c) == call[c].op # "none"

\* The invocation of c issued its request.
Issued(c) == Invoked(c) /\ sent[c] = 1

\* The option n of c's invocation, undefined when it was not supplied.
Opt(c, n) == IF call[c].args.hasOpts THEN call[c].args.o[n] ELSE Undef

\* The keys of the query string of c's request.
Keys(c) == DOMAIN req[c].query

\* The methods that need a client constructed with a wiki.
WikiRequired == {"searchSuggestions", "search", "getNewArticles"}

\* The client was constructed with a non-empty wiki.
HasWiki == wiki.t = "string" /\ wiki.s # ""

\* C1: on a client constructed without a wiki (absent or empty), every call
\* of searchSuggestions, search or getNewArticles throws an Error
\* synchronously and neither creates nor issues a request; on a client
\* constructed with a non-empty wiki none of the three throws.
C1_WikiPrecondition ==
    \A c \in Callers :
        (Invoked(c) /\ call[c].op \in WikiRequired) =>
            /\ ~HasWiki => /\ ret[c].kind = "throw"
                           /\ ret[c].error = "Error"
                           /\ req[c] = NoReq
                           /\ sent[c] = 0
                           /\ promise[c].state = "none"
            /\ HasWiki => ret[c].kind = "promise"

\* search with an options record is called on a client without a wiki and throws.
C1_Witness ==
    \E c \in Callers :
        /\ call[c].op = "search"
        /\ Supplied(call[c].args) # {}
        /\ wiki = Undef
        /\ ret[c].kind = "throw"

\* C2: every invocation whose precondition holds issues exactly one GET
\* request to the method's fixed path, whatever options are supplied, and
\* no invocation ever issues a second request.
C2_ExactlyOneRequest ==
    \A c \in Callers :
        /\ sent[c] <= 1
        /\ (Invoked(c) /\ (call[c].op \in WikiRequired => HasWiki)) =>
               /\ sent[c] = 1
               /\ req[c].method = "GET"
               /\ req[c].path = PathOf[call[c].op]

\* The wire key of each option of getWamIndex.
WamWireKey ==
    [wamDay |-> "wam_day", wamPreviousDay |-> "wam_previous_day",
     verticalID |-> "veritical_id", wikiLang |-> "wiki_lang", wikiID |-> "wiki_id",
     wikiWord |-> "wiki_word", excludeBlacklist |-> "exclude_blacklist",
     sortColumn |-> "sort_column", sortDirection |-> "sort_direction",
     offset |-> "offset", limit |-> "limit", fetchAdmins |-> "fetch_admins",
     avatarSize |-> "avatar_size", fetchWikiImages |-> "fetch_wiki_images",
     wikiImageWidth |-> "wiki_image_width", wikiImageHeight |-> "wiki_image_height"]

\* The query key that corresponds to option n of method op.
WireKey(op, n) == IF op = "getWamIndex" THEN WamWireKey[n] ELSE n

\* The option names of the method c invoked.
OptionNames(c) == DOMAIN call[c].args.o

\* The two options whose default is truthy: includeDomain of searchWikis
\* (true), and expand of searchCrossWiki on a client with a wiki (true).
TruthyDefault(c, n) ==
    \/ call[c].op = "searchWikis" /\ n = "includeDomain"
    \/ call[c].op = "searchCrossWiki" /\ n = "expand" /\ HasWiki

\* C3, as the specification states it: an option the caller omits leaves no key in the query
\* string, for every option of every method (and the optional wamDay of
\* getWamLanguages).
C3_OmittedOptionOmitsKey ==
    \A c \in Callers :
        Issued(c) =>
            /\ \A n \in OptionNames(c) :
                   Opt(c, n) = Undef => WireKey(call[c].op, n) \notin Keys(c)
            /\ (call[c].op = "getWamLanguages" /\ call[c].args.pos = Undef)
                   => "wam_day" \notin Keys(c)

\* C3 amended: an option the caller omits leaves no key in the query
\* string, except the two options whose default is truthy, includeDomain of
\* searchWikis and expand of searchCrossWiki on a client with a wiki: these
\* are sent with the value true.
C3_OmittedOptionOmitsKeyUnlessDefault ==
    \A c \in Callers :
        Issued(c) =>
            /\ \A n \in OptionNames(c) :
                   Opt(c, n) = Undef =>
                       IF TruthyDefault(c, n)
                       THEN /\ n \in Keys(c)
                            /\ req[c].query[n] = Bool(TRUE)
                       ELSE WireKey(call[c].op, n) \notin Keys(c)
            /\ (call[c].op = "getWamLanguages" /\ call[c].args.pos = Undef)
                   => "wam_day" \notin Keys(c)

\* getWamIndex is called with one option and issues a request without the
\* keys of the options left out.
C3_Witness ==
    \E c \in Callers :
        /\ Issued(c)
        /\ call[c].op = "getWamIndex"
        /\ Supplied(call[c].args) = {"verticalID"}
        /\ Keys(c) = {"veritical_id"}

\* The falsy values a caller supplies: false, 0 and the empty string.
Falsy(v) == v \in {Bool(FALSE), Num(0), Str("")}

\* The options whose guard is typeof ... !== "undefined", and includeDomain
\* of searchWikis, which has no guard.
SentWhenSupplied(op, n) ==
    \/ op = "getWamIndex" /\ n \in {"fetchAdmins", "fetchWikiImages"}
    \/ op = "getUsers" /\ n = "size"
    \/ op \in {"getLatestActivity", "getRecentlyChangedArticles"} /\ n = "allowDuplicates"
    \/ op \in {"searchCombined", "search", "getNewArticles"} /\ n = "minArticleQuality"
    \/ op = "searchWikis" /\ n = "includeDomain"

\* C4, as the specification states it: an option supplied as false, 0 or "" leaves no key in the
\* query string, for every option of every method.
C4_FalsyOptionOmitsKey ==
    \A c \in Callers :
        Issued(c) =>
            /\ \A n \in OptionNames(c) :
                   Falsy(Opt(c, n)) => WireKey(call[c].op, n) \notin Keys(c)
            /\ (call[c].op = "getWamLanguages" /\ Falsy(call[c].args.pos))
                   => "wam_day" \notin Keys(c)

\* C4 amended: an option supplied as false, 0 or "" leaves no key in the
\* query string, except fetchAdmins and fetchWikiImages of getWamIndex, size
\* of getUsers, allowDuplicates of getLatestActivity and
\* getRecentlyChangedArticles, minArticleQuality of searchCombined, search
\* and getNewArticles, and includeDomain of searchWikis: these are sent with
\* the falsy value unchanged.
C4_FalsyOptionOmitsKeyUnlessTypeof ==
    \A c \in Callers :
        Issued(c) =>
            /\ \A n \in OptionNames(c) :
                   Falsy(Opt(c, n)) =>
                       IF SentWhenSupplied(call[c].op, n)
                       THEN /\ WireKey(call[c].op, n) \in Keys(c)
                            /\ req[c].query[WireKey(call[c].op, n)] = Opt(c, n)
                       ELSE WireKey(call[c].op, n) \notin Keys(c)
            /\ (call[c].op = "getWamLanguages" /\ Falsy(call[c].args.pos))
                   => "wam_day" \notin Keys(c)

\* getDetails is called with width 0 and issues a request with ids alone.
C4_Witness ==
    \E c \in Callers :
        /\ Issued(c)
        /\ call[c].op = "getDetails"
        /\ Opt(c, "width") = Num(0)
        /\ Keys(c) = {"ids"}

\* The strings of a sequence separated by commas, up to its i-th.
RECURSIVE CommaSeparated(_, _)
CommaSeparated(a, i) ==
    IF i = 0 THEN ""
    ELSE IF i = 1 THEN a[1]
    ELSE CommaSeparated(a, i - 1) \o "," \o a[i]

\* An argument with a sequence of strings replaced by the comma-separated string.
StringForm(v) == IF v.t = "array" THEN Str(CommaSeparated(v.a, Len(v.a))) ELSE v

StringArgs(a) ==
    [pos |-> StringForm(a.pos), hasOpts |-> a.hasOpts,
     o |-> [n \in DOMAIN a.o |-> StringForm(a.o[n])]]

\* Some argument of the invocation is a sequence.
HasArray(a) == a.pos.t = "array" \/ \E n \in DOMAIN a.o : a.o[n].t = "array"

\* C5: an invocation that passes sequences of strings issues the same
\* request (method, URL, headers, path and query) as the invocation that
\* passes each sequence as its comma-separated string, the other arguments
\* being equal.
C5_SequenceAsCommaString ==
    \A c \in Callers :
        (Issued(c) /\ HasArray(call[c].args)) =>
            LET other == Run(call[c].op, StringArgs(call[c].args))
            IN  /\ other.kind = "promise"
                /\ other.sent = 1
                /\ other.req = req[c]

\* getArticleDetails is called with ids and titles as sequences and sends
\* both comma-separated.
C5_Witness ==
    \E c \in Callers :
        /\ Issued(c)
        /\ call[c].op = "getArticleDetails"
        /\ call[c].args.pos = Arr(<<"a", "b">>)
        /\ Opt(c, "titles") = Arr(<<"a", "b">>)
        /\ req[c].query["ids"] = Str("a,b")
        /\ req[c].query["titles"] = Str("a,b")

\* The methods with an expand option.
ExpandOps ==
    {"searchWikis", "getTopWikis", "searchCrossWiki", "getArticlesList",
     "getMostLinkedArtices", "getPopularArticles", "getTopArticles"}

\* The expand flag in effect: the supplied value, else the default (false,
\* and for searchCrossWiki whether the client has a wiki).
EffectiveExpand(c) ==
    IF Opt(c, "expand") # Undef THEN Opt(c, "expand") = Bool(TRUE)
    ELSE call[c].op = "searchCrossWiki" /\ HasWiki

\* C6: a request of a method with an expand option carries expand with the
\* number 1 exactly when the expand flag in effect is true, and no expand
\* key when it is false.
C6_ExpandIsNumberOne ==
    \A c \in Callers :
        (Issued(c) /\ call[c].op \in ExpandOps) =>
            IF EffectiveExpand(c)
            THEN "expand" \in Keys(c) /\ req[c].query["expand"] = Num(1)
            ELSE "expand" \notin Keys(c)

C8_OnlyTwoFailures ==
    \A c \in Callers :
        /\ ret[c].kind = "throw" =>
               /\ call[c].op \in WikiRequired
               /\ ~HasWiki
               /\ ret[c].error = "Error"
        /\ promise[c].settles <= 1
        /\ promise[c].state = "rejected" => promise[c].reason \in TransportErrors

\* The query key of the positional argument of each method that has one.
PositionalKeys(op) ==
    CASE op = "searchWikis" -> {"string"}
      [] op \in {"getDetails", "getUsers", "getRelatedArticles", "getArticleDetails"} -> {"ids"}
      [] op \in {"searchSuggestions", "searchCombined", "searchCrossWiki", "search"} -> {"query"}
      [] op = "getSimplifiedArticle" -> {"id"}
      [] op = "getWamLanguages" -> {"wam_day"}
      [] op = "getTopArticlesByHub" -> {"hub"}
      [] OTHER -> {}

\* The query keys an invocation may set: those of its positional argument,
\* of the options it supplies, and of the options with a default.
DerivedKeys(c) ==
    PositionalKeys(call[c].op)
    \cup {WireKey(call[c].op, n) : n \in Supplied(call[c].args)}
    \cup {n \in OptionNames(c) : TruthyDefault(c, n)}

OwnKeysOnly(c) == Invoked(c) => Keys(c) \subseteq DerivedKeys(c)

\* C9: no step changes the client's wiki, baseURL or default headers; no
\* step changes the request of an invocation that stays outstanding; and
\* every request a step creates has in its query only keys derived from
\* the arguments of the invocation that created it.
C9_InvocationsIndependent ==
    [][/\ client' = client
       /\ \A c \in Callers :
              /\ (pc[c] = "pending" /\ pc'[c] = "pending") => req'[c] = req[c]
              /\ req'[c] # req[c] => OwnKeysOnly(c)']_vars

\* The requests of two invocations with different query keys are
\* outstanding at the same time.
C9_Witness ==
    /\ \A c \in Callers : pc[c] = "pending"
    /\ Keys("c1") # {}
    /\ Keys("c2") # {}
    /\ Keys("c1") \cap Keys("c2") = {}

\* The options of getWamIndex the request transmits: fetchAdmins and
\* fetchWikiImages when supplied, the others when supplied and truthy.
WamTransmitted(c) ==
    {n \in DOMAIN WamWireKey :
        IF n \in {"fetchAdmins", "fetchWikiImages"}
        THEN Opt(c, n) # Undef
        ELSE Opt(c, n) \notin {Undef, Bool(FALSE), Num(0), Str("")}}

\* C10: the query of a getWamIndex request has exactly the wire keys of
\* the options it transmits (wamDay as wam_day, verticalID as veritical_id,
\* and so on), each with the supplied value unchanged; and a supplied
\* minArticleQuality of searchCombined, search and getNewArticles is sent
\* under the key minArticleQuality, unchanged.
C10_WireKeys ==
    \A c \in Callers :
        Issued(c) =>
            /\ call[c].op = "getWamIndex" =>
                   /\ Keys(c) = {WamWireKey[n] : n \in WamTransmitted(c)}
                   /\ \A n \in WamTransmitted(c) :
                          req[c].query[WamWireKey[n]] = Opt(c, n)
            /\ (/\ call[c].op \in {"searchCombined", "search", "getNewArticles"}
                /\ Opt(c, "minArticleQuality") # Undef) =>
                   /\ "minArticleQuality" \in Keys(c)
                   /\ "min_article_quality" \notin Keys(c)
                   /\ req[c].query["minArticleQuality"] = Opt(c, "minArticleQuality")

\* getWamIndex({ verticalID: 5 }) sends veritical_id=5.
C10_Witness ==
    \E c \in Callers :
        /\ Issued(c)
        /\ call[c].op = "getWamIndex"
        /\ Opt(c, "verticalID") = Num(5)
        /\ req[c].query["veritical_id"] = Num(5)

\* The base URL of a client of the wiki `name`, and of a cross-wiki client.
WikiURL(name) == "http://www." \o name \o ".wikia.com/api/v1"

CrossWikiURL == "http://www.wikia.com/api/v1"

\* C11: construction never fails; baseURL is http://www.<wiki>.wikia.com/api/v1
\* when a non-empty wiki is given and http://www.wikia.com/api/v1 when the
\* wiki is absent (no options, empty options, or an empty wiki string); and
\* the precondition checks treat the client as wiki-scoped exactly when its
\* baseURL carries the wiki segment.
C11_BaseURLFromWiki ==
    /\ \A o \in ConstructorInputs :
           LET this == constructor(o)
           IN  /\ ~this.threw
               /\ this.baseURL = IF o.hasOpts /\ o.wiki.t = "string" /\ o.wiki.s # ""
                                 THEN WikiURL(o.wiki.s) ELSE CrossWikiURL
    /\ baseURL = IF HasWiki THEN WikiURL(wiki.s) ELSE CrossWikiURL
    /\ \A c \in Callers :
           (Invoked(c) /\ call[c].op \in WikiRequired) =>
               (ret[c].kind = "promise" <=> baseURL # CrossWikiURL)

\* A client of the wiki foo has the foo base URL, and searchSuggestions on
\* it passed the precondition check and issued its request to that URL.
C11_Witness ==
    /\ wiki = Str("foo")
    /\ baseURL = "http://www.foo.wikia.com/api/v1"
    /\ \E c \in Callers :
           /\ call[c].op = "searchSuggestions"
           /\ ret[c].kind = "promise"
           /\ req[c].baseURL = "http://www.foo.wikia.com/api/v1"

\* The promise of c was returned by getMinMaxWamIndexDate and the response
\* carried min_max_dates.
DatesAnswered(c) ==
    /\ promise[c].op = "getMinMaxWamIndexDate"
    /\ promise[c].settles = 1
    /\ "min_max_dates" \in promise[c].body.has

\* C12: getMinMaxWamIndexDate resolves to a record whose minDate is the
\* instant at min_date * 1000 milliseconds and whose maxDate is the instant
\* at max_date * 1000 milliseconds of the response's min_max_dates; min and
\* max are never exchanged, whichever of the two is the larger.
C12_MinMaxDates ==
    \A c \in Callers :
        DatesAnswered(c) =>
            /\ promise[c].state = "fulfilled"
            /\ promise[c].value.t = "dates"
            /\ promise[c].value.minDate.valid
            /\ promise[c].value.maxDate.valid
            /\ promise[c].value.minDate.time = 1000 * promise[c].body.min_date
            /\ promise[c].value.maxDate.time = 1000 * promise[c].body.max_date

\* The response { min_max_dates: { min_date: 1000, max_date: 2000 } } was
\* resolved to the instants at 1,000,000 ms and 2,000,000 ms.
C12_Witness ==
    \E c \in Callers :
        /\ DatesAnswered(c)
        /\ promise[c].body.min_date = 1000
        /\ promise[c].body.max_date = 2000
        /\ promise[c].value.minDate.time = 1000000
        /\ promise[c].value.maxDate.time = 2000000

\* The promise of c was returned by searchSuggestions and the transport
\* answered it with a decoded body.
SuggestionsAnswered(c) ==
    /\ promise[c].op = "searchSuggestions"
    /\ promise[c].settles = 1
    /\ promise[c].reason = ""

\* C13: searchSuggestions on a wiki-scoped client resolves to the sequence
\* of the title fields of the response's items, in the order and with the
\* length of items; a response body without an items field resolves to the
\* empty sequence.
C13_SuggestionTitles ==
    \A c \in Callers :
        SuggestionsAnswered(c) =>
            LET body == promise[c].body
                list == promise[c].value.list
            IN  /\ HasWiki
                /\ promise[c].state = "fulfilled"
                /\ promise[c].value.t = "titles"
                /\ "items" \in body.has =>
                       /\ Len(list) = Len(body.items)
                       /\ \A i \in 1..Len(list) : list[i] = body.items[i].title
                /\ "items" \notin body.has => list = <<>>

\* The response { items: [{ title: "A" }, { title: "B" }] } was resolved
\* to the titles A, B.
C13_Witness ==
    \E c \in Callers :
        /\ SuggestionsAnswered(c)
        /\ promise[c].body.items = <<[title |-> "A"], [title |-> "B"]>>
        /\ promise[c].value.list = <<"A", "B">>

\* The methods with a required positional argument.
PositionalOps ==
    {"searchWikis", "getDetails", "getUsers", "getRelatedArticles", "getArticleDetails",
     "searchSuggestions", "searchCombined", "searchCrossWiki", "search",
     "getSimplifiedArticle", "getTopArticlesByHub"}

\* The request of c carries its positional argument under the method's key,
\* a sequence as its comma-separated string.
PositionalSent(c) ==
    \A k \in PositionalKeys(call[c].op) :
        /\ k \in Keys(c)
        /\ req[c].query[k] = StringForm(call[c].args.pos)

\* C14: for every method that takes a required positional argument, the
\* query string of the issued request has a key that carries the argument's
\* (comma-joined) value.
C14_PositionalArgumentSent ==
    \A c \in Callers :
        (Issued(c) /\ call[c].op \in PositionalOps) => PositionalSent(c)

====
